---- MODULE Spec2Model ----
(***************************************************************************)
(* GC9A01 round display controller (src/chips/gc9a01.c).                   *)
(*                                                                         *)
(* The chip is one struct, gc9a01_state_t, mutated by two callbacks:       *)
(* gc9a01_spi_done (a delivery of bytes by the SPI transport) and          *)
(* gc9a01_pin_change (an edge on CS, DC or RST).  The struct is the record *)
(* `state`; the levels of the three watched pins are `pins`.               *)
(*                                                                         *)
(* Representation choices:                                                 *)
(*  - state.spi is TRUE while a transfer started by spi_start is pending   *)
(*    (reception armed); spi_stop and the completion of a transfer clear   *)
(*    it.                                                                  *)
(*  - state.framebuffer is the width*height RGBA buffer, held as the       *)
(*    function from pixel index (offset / 4) to colour on the pixels that  *)
(*    differ from opaque black; every pixel outside its domain is black.   *)
(*  - a 32-bit colour is the tuple <<a, c>>: a the bits 24..31, c the bits *)
(*    0..23 (TLC's integers are 32-bit signed, 0xff000000 does not fit).   *)
(***************************************************************************)
EXTENDS Integers, Sequences, FiniteSets, TLC

(* ------------------------------------------------------------------ *)
(* Program constants                                                   *)
(* ------------------------------------------------------------------ *)
GC9A01_SWRESET == 1
GC9A01_SLPOUT == 17
GC9A01_INVOFF == 32
GC9A01_INVON == 33
GC9A01_DISPOFF == 40
GC9A01_DISPON == 41
GC9A01_CASET == 42
GC9A01_RASET == 43
GC9A01_RAMWR == 44
GC9A01_MADCTL == 54
GC9A01_COLMOD == 58

GC9A01_MODE_COMMAND == "COMMAND"
GC9A01_MODE_DATA == "DATA"

LOW == "LOW"
HIGH == "HIGH"

width == 240
height == 240

\* sizeof(command_args)
ARGS_LEN == 16

\* INT_MAX of the 32-bit int the mask arithmetic is done in
INT_MAX == 2147483647

\* opaque black, 0xff000000
black == <<255, 0>>

(* ------------------------------------------------------------------ *)
(* Helpers                                                             *)
(* ------------------------------------------------------------------ *)

\* get_expected_arg_count with an unknown opcode taking one argument
get_expected_arg_count_unknown1(command) ==
  IF command \in {GC9A01_CASET, GC9A01_RASET} THEN 4
  ELSE IF command \in {GC9A01_MADCTL, GC9A01_COLMOD} THEN 1
  ELSE IF command \in {GC9A01_SWRESET, GC9A01_SLPOUT, GC9A01_DISPON, GC9A01_DISPOFF,
                       GC9A01_RAMWR, GC9A01_INVOFF, GC9A01_INVON} THEN 0
  ELSE 1

get_expected_arg_count(command) ==
  IF command \in {GC9A01_SWRESET, GC9A01_SLPOUT, GC9A01_DISPON, GC9A01_DISPOFF,
                  GC9A01_RAMWR, GC9A01_INVOFF, GC9A01_INVON} THEN 0
  ELSE IF command \in {GC9A01_CASET, GC9A01_RASET} THEN 4
  ELSE IF command = GC9A01_MADCTL THEN 1
  ELSE IF command = GC9A01_COLMOD THEN 1
  ELSE 0

\* rgb565_to_rgba with the red field shifted by 16 instead of 19
rgb565_to_rgba_shift16(value) ==
  <<255, ((value % 32) * 65536) + (((value \div 32) % 64) * 1024) + ((value \div 2048) * 8)>>

\* 0xff000000 | ((value & 0x001F) << 19) | ((value & 0x07E0) << 5) | ((value & 0xF800) >> 8)
\* the three fields do not overlap, so | is +
rgb565_to_rgba(value) ==
  <<255, ((value % 32) * 524288)
         + ((((value \div 32) % 64) * 32) * 32)
         + ((((value \div 2048) % 32) * 2048) \div 256)>>

\* the loops that write black to every pixel of the framebuffer
fill_black == [i \in {} |-> black]

\* buffer_write(framebuffer, offset, &color, 4): the pixel at offset / 4 takes
\* the colour; a write that does not fit in the width*height*4 bytes of the
\* buffer leaves the buffer as it is.
buffer_write(fb, offset, color) ==
  LET i == offset \div 4 IN
  IF offset + 4 > width * height * 4 THEN fb
  ELSE IF color = black THEN [j \in DOMAIN fb \ {i} |-> fb[j]]
  ELSE [j \in DOMAIN fb \cup {i} |-> IF j = i THEN color ELSE fb[j]]

\* the colour the framebuffer holds at pixel (x, y)
pixel_at(fb, x, y) ==
  IF (y * width + x) \in DOMAIN fb THEN fb[y * width + x] ELSE black

(* ------------------------------------------------------------------ *)
(* process_command                                                     *)
(* ------------------------------------------------------------------ *)
\* process_command whose SWRESET case leaves the inversion flag alone
process_command_keeps_inverted(s, command, args, len) ==
  IF command = GC9A01_SWRESET THEN
    [s EXCEPT !.framebuffer = fill_black,
              !.display_on = FALSE,
              !.ram_write = FALSE,
              !.col_start = 0, !.col_end = (width - 1) % 65536,
              !.row_start = 0, !.row_end = (height - 1) % 65536,
              !.current_col = 0, !.current_row = 0]
  ELSE IF command = GC9A01_SLPOUT THEN s
  ELSE IF command = GC9A01_DISPON THEN [s EXCEPT !.display_on = TRUE]
  ELSE IF command = GC9A01_DISPOFF THEN [s EXCEPT !.display_on = FALSE]
  ELSE IF command = GC9A01_CASET THEN
    IF len = 4
    THEN [s EXCEPT !.col_start = (args[1] * 256 + args[2]) % 65536,
                   !.col_end = (args[3] * 256 + args[4]) % 65536,
                   !.current_col = (args[1] * 256 + args[2]) % 65536]
    ELSE s
  ELSE IF command = GC9A01_RASET THEN
    IF len = 4
    THEN [s EXCEPT !.row_start = (args[1] * 256 + args[2]) % 65536,
                   !.row_end = (args[3] * 256 + args[4]) % 65536,
                   !.current_row = (args[1] * 256 + args[2]) % 65536]
    ELSE s
  ELSE IF command = GC9A01_RAMWR THEN
    [s EXCEPT !.ram_write = TRUE, !.pending_data_valid = FALSE]
  ELSE IF command = GC9A01_MADCTL THEN s
  ELSE IF command = GC9A01_COLMOD THEN s
  ELSE IF command = GC9A01_INVOFF THEN [s EXCEPT !.inverted = FALSE]
  ELSE IF command = GC9A01_INVON THEN [s EXCEPT !.inverted = TRUE]
  ELSE s

process_command(s, command, args, len) ==
  IF command = GC9A01_SWRESET THEN
    [s EXCEPT !.framebuffer = fill_black,
              !.display_on = FALSE,
              !.inverted = FALSE,
              !.ram_write = FALSE,
              !.col_start = 0, !.col_end = (width - 1) % 65536,
              !.row_start = 0, !.row_end = (height - 1) % 65536,
              !.current_col = 0, !.current_row = 0]
  ELSE IF command = GC9A01_SLPOUT THEN s
  ELSE IF command = GC9A01_DISPON THEN [s EXCEPT !.display_on = TRUE]
  ELSE IF command = GC9A01_DISPOFF THEN [s EXCEPT !.display_on = FALSE]
  ELSE IF command = GC9A01_CASET THEN
    IF len = 4
    THEN [s EXCEPT !.col_start = (args[1] * 256 + args[2]) % 65536,
                   !.col_end = (args[3] * 256 + args[4]) % 65536,
                   !.current_col = (args[1] * 256 + args[2]) % 65536]
    ELSE s
  ELSE IF command = GC9A01_RASET THEN
    IF len = 4
    THEN [s EXCEPT !.row_start = (args[1] * 256 + args[2]) % 65536,
                   !.row_end = (args[3] * 256 + args[4]) % 65536,
                   !.current_row = (args[1] * 256 + args[2]) % 65536]
    ELSE s
  ELSE IF command = GC9A01_RAMWR THEN
    [s EXCEPT !.ram_write = TRUE, !.pending_data_valid = FALSE]
  ELSE IF command = GC9A01_MADCTL THEN s
  ELSE IF command = GC9A01_COLMOD THEN s
  ELSE IF command = GC9A01_INVOFF THEN [s EXCEPT !.inverted = FALSE]
  ELSE IF command = GC9A01_INVON THEN [s EXCEPT !.inverted = TRUE]
  ELSE s

(* ------------------------------------------------------------------ *)
(* process_pixel                                                       *)
(* ------------------------------------------------------------------ *)

\* lines 195-202: the converted and, when inverted, inverted colour
pixel_color(s, pixel_val) ==
  LET color == rgb565_to_rgba(pixel_val)
      r == 255 - ((color[2] \div 65536) % 256)
      g == 255 - ((color[2] \div 256) % 256)
      b == 255 - (color[2] % 256)
  IN IF s.inverted THEN <<255, (r * 65536) + (g * 256) + b>> ELSE color

\* lines 204-205: the cursor lies outside the address window
outside_window(s) ==
  \/ s.current_col < s.col_start
  \/ s.current_col > s.col_end
  \/ s.current_row < s.row_start
  \/ s.current_row > s.row_end

\* masked with the radius taken as the width instead of half the width
masked_radius_width(s, ovf) ==
  LET center == width \div 2
      dx == s.current_col - center
      dy == s.current_row - center
      adx == IF dx < 0 THEN 0 - dx ELSE dx
      ady == IF dy < 0 THEN 0 - dy ELSE dy
  IN IF adx > 46340 \/ ady > 46340 THEN ovf
     ELSE IF dx * dx > INT_MAX - dy * dy THEN ovf
     ELSE (dx * dx + dy * dy) > (width * width)

\* lines 209-212: (dx * dx + dy * dy) > (center * center) in int arithmetic.
\* A product overflows int when |dx| or |dy| exceeds 46340, the sum when it
\* exceeds INT_MAX: that is undefined behaviour, and ovf is the outcome the
\* build gives the comparison.
masked(s, ovf) ==
  LET center == width \div 2
      dx == s.current_col - center
      dy == s.current_row - center
      adx == IF dx < 0 THEN 0 - dx ELSE dx
      ady == IF dy < 0 THEN 0 - dy ELSE dy
  IN IF adx > 46340 \/ ady > 46340 THEN ovf
     ELSE IF dx * dx > INT_MAX - dy * dy THEN ovf
     ELSE (dx * dx + dy * dy) > (center * center)

NoWrite == [offset |-> -1, color |-> black]

\* lines 195-217: the buffer_write call process_pixel makes, NoWrite if none
process_pixel_write(s, pixel_val, ovf) ==
  IF outside_window(s) THEN NoWrite
  ELSE [offset |-> (s.current_row * width + s.current_col) * 4,
        color |-> IF masked(s, ovf) THEN black ELSE pixel_color(s, pixel_val)]

\* lines 219-226: advance the cursor through the window
advance_cursor(s) ==
  LET col == (s.current_col + 1) % 65536
      row == (s.current_row + 1) % 65536
  IN IF col > s.col_end
     THEN IF row > s.row_end
          THEN [s EXCEPT !.current_col = s.col_start, !.current_row = s.row_start]
          ELSE [s EXCEPT !.current_col = s.col_start, !.current_row = row]
     ELSE [s EXCEPT !.current_col = col]

process_pixel(s, pixel_val, ovf) ==
  LET w == process_pixel_write(s, pixel_val, ovf) IN
  IF w = NoWrite THEN s
  ELSE advance_cursor([s EXCEPT !.framebuffer = buffer_write(@, w.offset, w.color)])

(* ------------------------------------------------------------------ *)
(* gc9a01_spi_done                                                     *)
(* ------------------------------------------------------------------ *)

\* the body of the loop with the command applied one argument late
spi_byte_late(s, b, ovf) ==
  IF s.mode = GC9A01_MODE_COMMAND THEN
    IF ~s.is_receiving_command THEN
      LET t == [s EXCEPT !.current_command = b,
                         !.is_receiving_command = TRUE,
                         !.received_args = 0,
                         !.expected_args = get_expected_arg_count(b)]
      IN IF t.expected_args = 0
         THEN [process_command(t, t.current_command, <<>>, 0)
                 EXCEPT !.is_receiving_command = FALSE]
         ELSE t
    ELSE
      LET t == [s EXCEPT !.command_args[s.received_args + 1] = b,
                         !.received_args = (s.received_args + 1) % 256]
      IN IF t.received_args > t.expected_args
         THEN [process_command(t, t.current_command, t.command_args, t.expected_args)
                 EXCEPT !.is_receiving_command = FALSE]
         ELSE t
  ELSE
    IF s.ram_write THEN
      IF s.pending_data_valid
      THEN process_pixel([s EXCEPT !.pending_data_valid = FALSE],
                         (s.pending_data * 256 + b) % 65536, ovf)
      ELSE [s EXCEPT !.pending_data = b, !.pending_data_valid = TRUE]
    ELSE s

\* lines 241-272: the body of the loop, for one byte b
spi_byte(s, b, ovf) ==
  IF s.mode = GC9A01_MODE_COMMAND THEN
    IF ~s.is_receiving_command THEN
      LET t == [s EXCEPT !.current_command = b,
                         !.is_receiving_command = TRUE,
                         !.received_args = 0,
                         !.expected_args = get_expected_arg_count(b)]
      IN IF t.expected_args = 0
         THEN [process_command(t, t.current_command, <<>>, 0)
                 EXCEPT !.is_receiving_command = FALSE]
         ELSE t
    ELSE
      LET t == [s EXCEPT !.command_args[s.received_args + 1] = b,
                         !.received_args = (s.received_args + 1) % 256]
      IN IF t.received_args >= t.expected_args
         THEN [process_command(t, t.current_command, t.command_args, t.expected_args)
                 EXCEPT !.is_receiving_command = FALSE]
         ELSE t
  ELSE
    IF s.ram_write THEN
      IF s.pending_data_valid
      THEN process_pixel([s EXCEPT !.pending_data_valid = FALSE],
                         (s.pending_data * 256 + b) % 65536, ovf)
      ELSE [s EXCEPT !.pending_data = b, !.pending_data_valid = TRUE]
    ELSE s

\* lines 240-273: the loop over buffer[i .. count-1]
RECURSIVE spi_loop(_, _, _, _, _)
spi_loop(s, buffer, i, count, ovf) ==
  IF i > count THEN s
  ELSE spi_loop(spi_byte(s, buffer[i], ovf), buffer, i + 1, count, ovf)

\* gc9a01_spi_done that forgets a half-assembled command between two calls
gc9a01_spi_done_forgets(s, cs, buffer, count, ovf) ==
  IF count = 0 THEN s
  ELSE LET t == spi_loop([s EXCEPT !.is_receiving_command = FALSE], buffer, 1, count, ovf)
       IN IF cs = LOW THEN [t EXCEPT !.spi = TRUE] ELSE t

\* cs is pin_read(state->cs_pin)
gc9a01_spi_done(s, cs, buffer, count, ovf) ==
  IF count = 0 THEN s
  ELSE LET t == spi_loop(s, buffer, 1, count, ovf)
       IN IF cs = LOW THEN [t EXCEPT !.spi = TRUE] ELSE t

(* ------------------------------------------------------------------ *)
(* gc9a01_pin_change                                                   *)
(* ------------------------------------------------------------------ *)

\* gc9a01_pin_change whose CS branch leaves is_receiving_command alone
gc9a01_pin_change_keeps_command(s, cs, pin, value) ==
  IF pin = "cs" THEN
    IF value = LOW
    THEN [s EXCEPT !.pending_data_valid = FALSE, !.spi = TRUE]
    ELSE [s EXCEPT !.spi = FALSE, !.ram_write = FALSE, !.pending_data_valid = FALSE]
  ELSE IF pin = "dc" THEN
    [s EXCEPT !.mode = IF value = LOW THEN GC9A01_MODE_COMMAND ELSE GC9A01_MODE_DATA,
              !.spi = (cs = LOW)]
  ELSE IF pin = "rst" /\ value = LOW THEN
    [s EXCEPT !.spi = FALSE,
              !.framebuffer = fill_black,
              !.display_on = FALSE,
              !.inverted = FALSE,
              !.ram_write = FALSE,
              !.col_start = 0, !.col_end = (width - 1) % 65536,
              !.row_start = 0, !.row_end = (height - 1) % 65536,
              !.current_col = 0, !.current_row = 0]
  ELSE s

\* gc9a01_pin_change whose CS branch leaves ram_write alone
gc9a01_pin_change_keeps_ram_write(s, cs, pin, value) ==
  IF pin = "cs" THEN
    IF value = LOW
    THEN [s EXCEPT !.is_receiving_command = FALSE, !.pending_data_valid = FALSE,
                   !.spi = TRUE]
    ELSE [s EXCEPT !.spi = FALSE,
                   !.is_receiving_command = FALSE, !.pending_data_valid = FALSE]
  ELSE IF pin = "dc" THEN
    [s EXCEPT !.mode = IF value = LOW THEN GC9A01_MODE_COMMAND ELSE GC9A01_MODE_DATA,
              !.spi = (cs = LOW)]
  ELSE IF pin = "rst" /\ value = LOW THEN
    [s EXCEPT !.spi = FALSE,
              !.framebuffer = fill_black,
              !.display_on = FALSE,
              !.inverted = FALSE,
              !.ram_write = FALSE,
              !.col_start = 0, !.col_end = (width - 1) % 65536,
              !.row_start = 0, !.row_end = (height - 1) % 65536,
              !.current_col = 0, !.current_row = 0]
  ELSE s

\* gc9a01_pin_change whose DC branch starts a transfer whatever the level of CS
gc9a01_pin_change_dc_starts(s, cs, pin, value) ==
  IF pin = "cs" THEN
    IF value = LOW
    THEN [s EXCEPT !.is_receiving_command = FALSE, !.pending_data_valid = FALSE,
                   !.spi = TRUE]
    ELSE [s EXCEPT !.spi = FALSE, !.ram_write = FALSE,
                   !.is_receiving_command = FALSE, !.pending_data_valid = FALSE]
  ELSE IF pin = "dc" THEN
    [s EXCEPT !.mode = IF value = LOW THEN GC9A01_MODE_COMMAND ELSE GC9A01_MODE_DATA,
              !.spi = TRUE]
  ELSE IF pin = "rst" /\ value = LOW THEN
    [s EXCEPT !.spi = FALSE,
              !.framebuffer = fill_black,
              !.display_on = FALSE,
              !.inverted = FALSE,
              !.ram_write = FALSE,
              !.col_start = 0, !.col_end = (width - 1) % 65536,
              !.row_start = 0, !.row_end = (height - 1) % 65536,
              !.current_col = 0, !.current_row = 0]
  ELSE s

\* pin is the changed pin, value its new level, cs is pin_read(state->cs_pin)
gc9a01_pin_change(s, cs, pin, value) ==
  IF pin = "cs" THEN
    IF value = LOW
    THEN [s EXCEPT !.is_receiving_command = FALSE, !.pending_data_valid = FALSE,
                   !.spi = TRUE]
    ELSE [s EXCEPT !.spi = FALSE, !.ram_write = FALSE,
                   !.is_receiving_command = FALSE, !.pending_data_valid = FALSE]
  ELSE IF pin = "dc" THEN
    \* spi_stop, then spi_start if CS is low
    [s EXCEPT !.mode = IF value = LOW THEN GC9A01_MODE_COMMAND ELSE GC9A01_MODE_DATA,
              !.spi = (cs = LOW)]
  ELSE IF pin = "rst" /\ value = LOW THEN
    [s EXCEPT !.spi = FALSE,
              !.framebuffer = fill_black,
              !.display_on = FALSE,
              !.inverted = FALSE,
              !.ram_write = FALSE,
              !.col_start = 0, !.col_end = (width - 1) % 65536,
              !.row_start = 0, !.row_end = (height - 1) % 65536,
              !.current_col = 0, !.current_row = 0]
  ELSE s

(* ------------------------------------------------------------------ *)
(* chip_init                                                           *)
(* ------------------------------------------------------------------ *)
chip_init ==
  [spi |-> FALSE,
   framebuffer |-> fill_black,
   mode |-> GC9A01_MODE_COMMAND,
   is_receiving_command |-> FALSE,
   current_command |-> 0,
   expected_args |-> 0,
   received_args |-> 0,
   command_args |-> [i \in 1..ARGS_LEN |-> 0],
   pending_data |-> 0,
   pending_data_valid |-> FALSE,
   col_start |-> 0,
   col_end |-> (width - 1) % 65536,
   row_start |-> 0,
   row_end |-> (height - 1) % 65536,
   current_col |-> 0,
   current_row |-> 0,
   ram_write |-> FALSE,
   display_on |-> FALSE,
   inverted |-> FALSE]

\* CS and RST are INPUT_PULLUP, DC is INPUT (low selects command mode)
pins_init == [cs |-> HIGH, dc |-> LOW, rst |-> HIGH]

(* ------------------------------------------------------------------ *)
(* State                                                               *)
(* ------------------------------------------------------------------ *)
VARIABLES
  state,  \* the gc9a01_state_t of the chip
  pins,   \* the levels of the CS, DC and RST pins
  prev,   \* history: state before the last callback
  ev,     \* history: the last callback and its arguments
  used,   \* history: bytes (or deliveries) received so far
  scen,   \* history: progress of an interrupted command or sample
  base,   \* history: state at the start of the current run of deliveries
  sent,   \* history: bytes delivered since base, and in how many calls
  wrap    \* history: samples written since a memory write began at the window origin

vars == <<state, pins, prev, ev, used, scen, base, sent, wrap>>

\* bytes a delivery may carry at most, in the byte-level specifications
MaxChunk == 2
\* bytes delivered in one behaviour of SpecParser
MaxBytes == 4

\* the opcodes and argument values of the byte-level specification:
\* 0 and 255 are no opcode of the chip
ParserBytes == {0, 255, GC9A01_DISPON, GC9A01_CASET, GC9A01_RASET, GC9A01_RAMWR}

RECURSIVE SeqsUpTo(_, _)
SeqsUpTo(S, n) ==
  IF n = 0 THEN {<<>>}
  ELSE LET shorter == SeqsUpTo(S, n - 1)
       IN shorter \cup {Append(q, x) : q \in {r \in shorter : Len(r) = n - 1}, x \in S}

ParserBuffers == SeqsUpTo(ParserBytes, MaxChunk)

NoEvent == [kind |-> "init", pin |-> "none", value |-> LOW, buffer |-> <<>>, ovf |-> FALSE]

window(s) == <<s.col_start, s.col_end, s.row_start, s.row_end>>
cursor(s) == <<s.current_col, s.current_row>>

NoScen == [via |-> "none", phase |-> 0, win |-> <<0, 0, 0, 0>>, cur |-> <<0, 0>>]
NoSent == [bytes |-> <<>>, calls |-> 0]
NoWrap == [on |-> FALSE, n |-> 0]

(* ------------------------------------------------------------------ *)
(* The two callbacks as actions                                        *)
(* ------------------------------------------------------------------ *)

\* An edge on a watched pin: the pin takes its new level, then the
\* pin_change callback runs (watch_config.edge = BOTH).
PinChange(pin, value) ==
  /\ pins[pin] # value
  /\ pins' = [pins EXCEPT ![pin] = value]
  /\ state' = gc9a01_pin_change(state, pins'.cs, pin, value)
  /\ prev' = state
  /\ ev' = [kind |-> "pin", pin |-> pin, value |-> value, buffer |-> <<>>, ovf |-> FALSE]

\* The transport completes the pending transfer with the bytes of buffer and
\* calls the done callback; the transfer is over, reception continues only
\* if the callback starts a new one.  ovf is taken FALSE when the outcome of
\* an overflowing mask comparison makes no difference to the state.
SpiDone(buffer, ovf) ==
  /\ state.spi
  /\ LET s == [state EXCEPT !.spi = FALSE] IN
     /\ ovf => gc9a01_spi_done(s, pins.cs, buffer, Len(buffer), TRUE)
                 # gc9a01_spi_done(s, pins.cs, buffer, Len(buffer), FALSE)
     /\ state' = gc9a01_spi_done(s, pins.cs, buffer, Len(buffer), ovf)
  /\ prev' = state
  /\ ev' = [kind |-> "spi", pin |-> "none", value |-> LOW, buffer |-> buffer, ovf |-> ovf]
  /\ UNCHANGED pins

\* the states the loop of the last delivery went through: before the first
\* byte, after the first byte, ..., after the last byte
RECURSIVE steps(_, _, _, _)
steps(s, buffer, i, ovf) ==
  IF i > Len(buffer) THEN <<s>>
  ELSE <<s>> \o steps(spi_byte(s, buffer[i], ovf), buffer, i + 1, ovf)

trace == steps(prev, ev.buffer, 1, ev.ovf)

\* byte i of the last delivery completed a sample and invoked process_pixel
invokes_pixel(i) ==
  /\ trace[i].mode = GC9A01_MODE_DATA
  /\ trace[i].ram_write
  /\ trace[i].pending_data_valid

\* the sample byte i of the last delivery completed
sample_of(i) == (trace[i].pending_data * 256 + ev.buffer[i]) % 65536

(* ------------------------------------------------------------------ *)
(* History of an interrupted command or sample                         *)
(* ------------------------------------------------------------------ *)
ZeroArgOpcodes == {GC9A01_SWRESET, GC9A01_SLPOUT, GC9A01_DISPON, GC9A01_DISPOFF,
                   GC9A01_RAMWR, GC9A01_INVOFF, GC9A01_INVON}
Opcodes == ZeroArgOpcodes \cup {GC9A01_CASET, GC9A01_RASET, GC9A01_MADCTL, GC9A01_COLMOD}

\* s is the state before the callback
ScenAfterPin(sc, s, pin, value) ==
  IF /\ pin = "cs" /\ value = HIGH
     /\ s.mode = GC9A01_MODE_COMMAND /\ s.is_receiving_command
     /\ s.current_command \in {GC9A01_CASET, GC9A01_RASET} /\ s.received_args = 2
  THEN [via |-> "cs", phase |-> 1, win |-> window(s), cur |-> cursor(s)]
  ELSE IF pin = "cs" /\ value = LOW /\ sc.via = "cs" /\ sc.phase = 1
  THEN [sc EXCEPT !.phase = 2]
  ELSE IF /\ pin = "dc" /\ value = HIGH
          /\ s.mode = GC9A01_MODE_COMMAND /\ s.is_receiving_command
          /\ s.received_args < s.expected_args
  THEN [via |-> "dc", phase |-> 1, win |-> window(s), cur |-> cursor(s)]
  ELSE IF pin = "dc" /\ value = LOW /\ sc.via = "dc" /\ sc.phase = 1
  THEN [sc EXCEPT !.phase = 2]
  ELSE IF /\ pin = "dc" /\ value = LOW
          /\ s.mode = GC9A01_MODE_DATA /\ s.ram_write /\ s.pending_data_valid
  THEN [via |-> "px", phase |-> 1, win |-> window(s), cur |-> cursor(s)]
  ELSE IF pin = "dc" /\ value = HIGH /\ sc.via = "px" /\ sc.phase = 1
  THEN [sc EXCEPT !.phase = 2]
  ELSE NoScen

ScenAfterSpi(sc, s, buffer) ==
  IF /\ Len(buffer) = 1 /\ sc.phase = 2
     /\ \/ sc.via = "cs" /\ s.mode = GC9A01_MODE_COMMAND /\ buffer[1] \in ZeroArgOpcodes
        \/ sc.via = "dc" /\ s.mode = GC9A01_MODE_COMMAND
        \/ sc.via = "px" /\ s.mode = GC9A01_MODE_DATA /\ s.ram_write
  THEN [sc EXCEPT !.phase = 3]
  ELSE NoScen

(* ------------------------------------------------------------------ *)
(* SpecParser: the parser under the select and mode lines, byte by byte *)
(* ------------------------------------------------------------------ *)
Init ==
  /\ state = chip_init
  /\ pins = pins_init
  /\ prev = chip_init
  /\ ev = NoEvent
  /\ used = 0
  /\ scen = NoScen
  /\ base = chip_init
  /\ sent = NoSent
  /\ wrap = NoWrap

ParserCsChange ==
  \E value \in {LOW, HIGH} :
    /\ PinChange("cs", value)
    /\ scen' = ScenAfterPin(scen, state, "cs", value)
    /\ UNCHANGED <<used, base, sent, wrap>>

ParserDcChange ==
  \E value \in {LOW, HIGH} :
    /\ PinChange("dc", value)
    /\ scen' = ScenAfterPin(scen, state, "dc", value)
    /\ UNCHANGED <<used, base, sent, wrap>>

ParserDeliver ==
  \E buffer \in ParserBuffers, ovf \in BOOLEAN :
    /\ used + Len(buffer) <= MaxBytes
    /\ SpiDone(buffer, ovf)
    /\ used' = used + Len(buffer)
    /\ scen' = ScenAfterSpi(scen, state, buffer)
    /\ UNCHANGED <<base, sent, wrap>>

NextParser == ParserCsChange \/ ParserDcChange \/ ParserDeliver

SpecParser == Init /\ [][NextParser]_vars

(* ------------------------------------------------------------------ *)
(* Properties of SpecParser                                            *)
(* ------------------------------------------------------------------ *)
full_window == <<0, width - 1, 0, height - 1>>

\* C4: a column- or row-address-set interrupted after two arguments by the
\* select line going high is never applied: after the select line is low
\* again and a zero-argument opcode is delivered, that opcode is the current
\* command with no argument received, the parser is idle, and the window, the
\* cursor and the flags are those the fresh command alone gives.
SelectAbandonsPartialCommand ==
  (scen.via = "cs" /\ scen.phase = 3) =>
    LET b == ev.buffer[1] IN
    /\ state.current_command = b
    /\ state.received_args = 0
    /\ ~state.is_receiving_command
    /\ window(state) = IF b = GC9A01_SWRESET THEN full_window ELSE scen.win
    /\ cursor(state) = IF b = GC9A01_SWRESET THEN <<0, 0>> ELSE scen.cur
    /\ state.ram_write = (b = GC9A01_RAMWR)
    /\ state.display_on = \/ b = GC9A01_DISPON
                          \/ b \notin {GC9A01_DISPOFF, GC9A01_SWRESET} /\ prev.display_on
    /\ state.inverted = \/ b = GC9A01_INVON
                        \/ b \notin {GC9A01_INVOFF, GC9A01_SWRESET} /\ prev.inverted

\* C4 witness: a fresh display-on was applied after an abandoned address-set
\* whose two arguments are still in the argument buffer
SelectAbandonsWitness ==
  /\ scen.via = "cs" /\ scen.phase = 3
  /\ ev.buffer = <<GC9A01_DISPON>>
  /\ state.display_on
  /\ state.command_args[2] = 255

\* C5: a byte that is no opcode of the chip, received in command mode while
\* no command is being assembled, changes neither the window, the cursor,
\* the flags nor the framebuffer and leaves the parser idle; the byte after
\* it in the same delivery is taken as an opcode.
UnknownOpcodeIsNoOp ==
  ev.kind = "spi" =>
    \A i \in 1..Len(ev.buffer) :
      ( /\ trace[i].mode = GC9A01_MODE_COMMAND
        /\ ~trace[i].is_receiving_command
        /\ ev.buffer[i] \notin Opcodes )
      => /\ window(trace[i + 1]) = window(trace[i])
         /\ cursor(trace[i + 1]) = cursor(trace[i])
         /\ trace[i + 1].display_on = trace[i].display_on
         /\ trace[i + 1].inverted = trace[i].inverted
         /\ trace[i + 1].ram_write = trace[i].ram_write
         /\ trace[i + 1].framebuffer = trace[i].framebuffer
         /\ ~trace[i + 1].is_receiving_command
         /\ i < Len(ev.buffer) =>
              /\ trace[i + 2].current_command = ev.buffer[i + 1]
              /\ trace[i + 2].received_args = 0
              /\ trace[i + 2].is_receiving_command
                   = (ev.buffer[i + 1] \in {GC9A01_CASET, GC9A01_RASET,
                                            GC9A01_MADCTL, GC9A01_COLMOD})

\* C5 witness: an unknown byte followed by a column-address-set opcode in
\* one delivery, with a memory write active
UnknownOpcodeWitness ==
  /\ ev.kind = "spi"
  /\ ev.buffer = <<255, GC9A01_CASET>>
  /\ prev.mode = GC9A01_MODE_COMMAND
  /\ ~prev.is_receiving_command
  /\ prev.ram_write
  /\ state.is_receiving_command

\* C8 as claimed: after every delivery, of zero bytes or more, handled while
\* the select line is low, reception is armed again.
RearmAfterEveryDelivery ==
  (ev.kind = "spi" /\ pins.cs = LOW) => state.spi

\* C10 as claimed: after the mode line changed during a command that has
\* fewer arguments than it expects, the next command-mode byte is the opcode
\* of a new command; after the mode line changed while the high byte of a
\* sample was pending, the next data-mode byte is a new high byte.
ModeChangeDiscardsPartial ==
  /\ (scen.via = "dc" /\ scen.phase = 3) =>
       /\ state.current_command = ev.buffer[1]
       /\ state.received_args = 0
  /\ (scen.via = "px" /\ scen.phase = 3) =>
       /\ state.pending_data_valid
       /\ state.pending_data = ev.buffer[1]
       /\ cursor(state) = cursor(prev)

\* C13 as claimed: the parser is assembling a command, or assembling a
\* sample, or idle, and never two of these: is_receiving_command and
\* pending_data_valid are never both true.
NoOverlap ==
  ~(state.is_receiving_command /\ state.pending_data_valid)

\* byte i of the last delivery was applied as the memory-write opcode
applies_ramwr(i) ==
  /\ trace[i].mode = GC9A01_MODE_COMMAND
  /\ ~trace[i].is_receiving_command
  /\ ev.buffer[i] = GC9A01_RAMWR

\* C16: the select line going high leaves ram_write false; ram_write stays
\* false until a byte is applied as the memory-write opcode in command mode
\* (no control-line event and no other byte sets it); and a data-mode byte
\* received while ram_write is false does not invoke the pixel pipeline and
\* changes nothing of the state, so neither the framebuffer, the cursor nor
\* the window.
SessionEndsAtDeselect ==
  /\ (ev.kind = "pin" /\ ev.pin = "cs" /\ ev.value = HIGH) => ~state.ram_write
  /\ ev.kind = "pin" => (state.ram_write => prev.ram_write)
  /\ ev.kind = "spi" =>
       \A i \in 1..Len(ev.buffer) :
         /\ (~trace[i].ram_write /\ trace[i + 1].ram_write) => applies_ramwr(i)
         /\ (trace[i].mode = GC9A01_MODE_DATA /\ ~trace[i].ram_write) =>
              /\ ~invokes_pixel(i)
              /\ trace[i + 1] = trace[i]

\* C16 witness: after a memory write that the select line going high ended
\* (the only event of SpecParser that clears ram_write), two data bytes were
\* delivered with the select line low again and left the state as it was
SessionEndsWitness ==
  /\ ev.kind = "spi" /\ Len(ev.buffer) = 2
  /\ prev.mode = GC9A01_MODE_DATA
  /\ prev.current_command = GC9A01_RAMWR
  /\ ~prev.ram_write
  /\ state = [prev EXCEPT !.spi = TRUE]
  /\ pins.cs = LOW

(* ------------------------------------------------------------------ *)
(* SpecChunk: runs of deliveries between two control-line events       *)
(* ------------------------------------------------------------------ *)

\* bytes delivered in one behaviour of SpecChunk
MaxSent == 5

ChunkBytes == {0, GC9A01_CASET, GC9A01_MADCTL, GC9A01_INVON}

ChunkBuffers == SeqsUpTo(ChunkBytes, MaxChunk)

ChunkCsChange ==
  \E value \in {LOW, HIGH} :
    /\ PinChange("cs", value)
    /\ base' = state'
    /\ sent' = NoSent
    /\ UNCHANGED <<used, scen, wrap>>

ChunkDeliver ==
  \E buffer \in ChunkBuffers, ovf \in BOOLEAN :
    /\ used + Len(buffer) <= MaxSent
    /\ SpiDone(buffer, ovf)
    /\ used' = used + Len(buffer)
    /\ IF buffer = <<>>
       THEN base' = state' /\ sent' = NoSent
       ELSE /\ base' = base
            /\ sent' = [bytes |-> sent.bytes \o buffer, calls |-> sent.calls + 1]
    /\ UNCHANGED <<scen, wrap>>

NextChunk == ChunkCsChange \/ ChunkDeliver

SpecChunk == Init /\ [][NextChunk]_vars

\* C1: with the select line low and no control-line event in between, the
\* state and framebuffer reached by delivering command-mode bytes in several
\* calls are those reached by delivering the same bytes in one call.
ChunkingInvariance ==
  (base.mode = GC9A01_MODE_COMMAND /\ sent.calls >= 1) =>
    state = gc9a01_spi_done([base EXCEPT !.spi = FALSE], LOW,
                            sent.bytes, Len(sent.bytes), FALSE)

\* C1 witness: a column-address-set and its four arguments, delivered in three
\* calls, moved the window
ChunkingWitness ==
  /\ base.mode = GC9A01_MODE_COMMAND
  /\ sent.calls = 3
  /\ Len(sent.bytes) = 5
  /\ sent.bytes[1] = GC9A01_CASET
  /\ window(state) # window(base)

(* ------------------------------------------------------------------ *)
(* Spec: whole commands and whole samples, all three control lines     *)
(* ------------------------------------------------------------------ *)

\* deliveries in one behaviour of Spec
MaxDeliveries == 5

\* <<col_start, col_end, row_start, row_end>> of the windows a driver sets:
\* the centre pixel; the last column and the one after it; the last row and
\* the one after it; the last 16-bit column address
Windows == {<<120, 120, 120, 120>>, <<239, 240, 120, 120>>,
            <<120, 120, 239, 240>>, <<65535, 65535, 120, 120>>}

\* the 16-bit samples a driver writes
Samples == {65535, 4660}

address_set(opcode, start, end) ==
  <<opcode, start \div 256, start % 256, end \div 256, end % 256>>

\* column-address-set, row-address-set, memory-write: one delivery
set_window(w) ==
  address_set(GC9A01_CASET, w[1], w[2]) \o address_set(GC9A01_RASET, w[3], w[4])
    \o <<GC9A01_RAMWR>>

CommandBuffers ==
  {set_window(w) : w \in Windows}
    \cup {<<GC9A01_RAMWR>>, <<GC9A01_DISPON, GC9A01_INVON>>, <<GC9A01_SWRESET>>}

SampleBuffers == {<<v \div 256, v % 256>> : v \in Samples}

\* commands are sent with DC low and samples with DC high
Buffers == IF pins.dc = LOW THEN CommandBuffers ELSE SampleBuffers

\* s the state before a byte, t the state after it
WrapAfterByte(w, s, t) ==
  IF s.mode = GC9A01_MODE_COMMAND THEN
    IF t.is_receiving_command THEN w
    ELSE IF t.current_command = GC9A01_RAMWR
    THEN [on |-> /\ cursor(t) = <<t.col_start, t.row_start>>
                 /\ t.col_start <= t.col_end
                 /\ t.row_start <= t.row_end,
          n |-> 0]
    ELSE IF t.current_command \in {GC9A01_CASET, GC9A01_RASET, GC9A01_SWRESET}
    THEN NoWrap
    ELSE w
  ELSE IF s.ram_write /\ s.pending_data_valid /\ w.on
  THEN [w EXCEPT !.n = @ + 1]
  ELSE w

RECURSIVE WrapAfterSteps(_, _, _)
WrapAfterSteps(w, tr, i) ==
  IF i >= Len(tr) THEN w
  ELSE WrapAfterSteps(WrapAfterByte(w, tr[i], tr[i + 1]), tr, i + 1)

WrapAfterPin(w, pin, value) ==
  IF (pin = "cs" /\ value = HIGH) \/ (pin = "rst" /\ value = LOW) THEN NoWrap ELSE w

CsChange ==
  \E value \in {LOW, HIGH} :
    /\ PinChange("cs", value)
    /\ wrap' = WrapAfterPin(wrap, "cs", value)
    /\ UNCHANGED <<used, scen, base, sent>>

DcChange ==
  \E value \in {LOW, HIGH} :
    /\ PinChange("dc", value)
    /\ wrap' = WrapAfterPin(wrap, "dc", value)
    /\ UNCHANGED <<used, scen, base, sent>>

RstChange ==
  \E value \in {LOW, HIGH} :
    /\ PinChange("rst", value)
    /\ wrap' = WrapAfterPin(wrap, "rst", value)
    /\ UNCHANGED <<used, scen, base, sent>>

Deliver ==
  \E buffer \in Buffers, ovf \in BOOLEAN :
    /\ used < MaxDeliveries
    /\ SpiDone(buffer, ovf)
    /\ used' = used + 1
    /\ wrap' = WrapAfterSteps(wrap, steps(state, buffer, 1, ovf), 1)
    /\ UNCHANGED <<scen, base, sent>>

Next == CsChange \/ DcChange \/ RstChange \/ Deliver

Spec == Init /\ [][Next]_vars

(* ------------------------------------------------------------------ *)
(* Properties of Spec                                                  *)
(* ------------------------------------------------------------------ *)

\* byte i of the last delivery was applied as the software-reset opcode
applies_swreset(i) ==
  /\ trace[i].mode = GC9A01_MODE_COMMAND
  /\ ~trace[i].is_receiving_command
  /\ ev.buffer[i] = GC9A01_SWRESET

baseline(s) ==
  /\ window(s) = full_window
  /\ cursor(s) = <<0, 0>>
  /\ ~s.display_on
  /\ ~s.inverted
  /\ ~s.ram_write
  \* no pixel of the surface differs from opaque black
  /\ s.framebuffer = fill_black

\* C3: right after a falling edge of the reset line, and right after the
\* reset opcode is applied, the window is the full surface, the cursor is
\* (0,0), displayOn, inverted and ramWriteActive are false and every pixel
\* of the surface is opaque black.
ResetRestoresBaseline ==
  /\ (ev.kind = "pin" /\ ev.pin = "rst" /\ ev.value = LOW) => baseline(state)
  /\ ev.kind = "spi" =>
       \A i \in 1..Len(ev.buffer) : applies_swreset(i) => baseline(trace[i + 1])

\* C3 witness: the reset opcode was applied to a chip with a coloured pixel,
\* a moved window and all three flags set
ResetWitness ==
  /\ ev.kind = "spi"
  /\ ev.buffer = <<GC9A01_SWRESET>>
  /\ applies_swreset(1)
  /\ prev.framebuffer # fill_black
  /\ window(prev) # full_window
  /\ prev.display_on /\ prev.inverted /\ prev.ram_write
  /\ baseline(state)

on_surface(s) == s.current_col < width /\ s.current_row < height

\* C2 as claimed: every write of the pixel pipeline is at a cursor on the
\* surface, and a sample whose cursor is off the surface leaves the
\* framebuffer as it is.
SafeOutput ==
  ev.kind = "spi" =>
    \A i \in 1..Len(ev.buffer) :
      (invokes_pixel(i) /\ ~on_surface(trace[i])) =>
        /\ process_pixel_write(trace[i], sample_of(i), ev.ovf) = NoWrite
        /\ trace[i + 1].framebuffer = trace[i].framebuffer

\* C6 as claimed: n samples after a memory write that began at the origin of
\* a window with col_start <= col_end and row_start <= row_end, the cursor
\* is n places further in raster order, wrapped to the origin after the
\* last place of the window.
WindowWraparound ==
  wrap.on =>
    LET w == state.col_end - state.col_start + 1
        h == state.row_end - state.row_start + 1
    IN cursor(state) = <<state.col_start + (wrap.n % w),
                         state.row_start + ((wrap.n \div w) % h)>>

\* the same, for windows that do not end at the last 16-bit address
WindowWraparoundBelowMax ==
  (wrap.on /\ state.col_end < 65535 /\ state.row_end < 65535) => WindowWraparound

Bit(n, k) == (n \div (2 ^ k)) % 2

\* bit j of the 32-bit colour c
ColorBit(c, j) == IF j >= 24 THEN Bit(c[1], j - 24) ELSE Bit(c[2], j)

\* bit j of 0xFF000000 | ((S & 0x001F) << 19) | ((S & 0x07E0) << 5) | ((S & 0xF800) >> 8)
ExpandedBit(S, j) ==
  IF j >= 24 THEN 1
  ELSE IF j >= 19 THEN Bit(S, j - 19)
  ELSE IF j >= 16 THEN 0
  ELSE IF j >= 10 THEN Bit(S, j - 5)
  ELSE IF j >= 8 THEN 0
  ELSE IF j >= 3 THEN Bit(S, j + 8)
  ELSE 0

outside_circle(x, y) ==
  ((x - 120) * (x - 120)) + ((y - 120) * (y - 120)) > 120 * 120

\* C7: a sample written while the cursor is at a pixel (x,y) of the surface
\* inside the window leaves that pixel opaque black when
\* (x-120)^2 + (y-120)^2 > 120^2, and otherwise the expanded colour of the
\* sample, with its three colour channels complemented when inverted is set.
CircularMask ==
  ev.kind = "spi" =>
    \A i \in 1..Len(ev.buffer) :
      (invokes_pixel(i) /\ ~outside_window(trace[i]) /\ on_surface(trace[i])) =>
        LET x == trace[i].current_col
            y == trace[i].current_row
            c == pixel_at(trace[i + 1].framebuffer, x, y)
        IN IF outside_circle(x, y) THEN c = black
           ELSE \A j \in 0..31 :
                  ColorBit(c, j) =
                    IF trace[i].inverted /\ j < 24
                    THEN 1 - ExpandedBit(sample_of(i), j)
                    ELSE ExpandedBit(sample_of(i), j)

\* C7 witness, corner: a sample other than black was written at (0,0)
MaskCornerWitness ==
  /\ ev.kind = "spi" /\ Len(ev.buffer) = 2
  /\ invokes_pixel(2)
  /\ cursor(prev) = <<0, 0>>
  /\ sample_of(2) = 4660
  /\ pixel_at(state.framebuffer, 0, 0) = black
  /\ cursor(state) = <<1, 0>>

\* C7 witness, centre: an inverted sample was written at (120,120)
MaskCentreWitness ==
  /\ ev.kind = "spi" /\ Len(ev.buffer) = 2
  /\ invokes_pixel(2)
  /\ cursor(prev) = <<120, 120>>
  /\ prev.inverted
  /\ sample_of(2) = 4660
  /\ pixel_at(state.framebuffer, 120, 120) # black

\* C11 as claimed: while a memory write is active the cursor lies inside the
\* address window, col_start <= current_col <= col_end and
\* row_start <= current_row <= row_end.
CursorInWindow ==
  state.ram_write => ~outside_window(state)

\* C17 as claimed: a sample written while the cursor is inside a window with
\* col_start <= col_end and row_start <= row_end, whatever its 16-bit bounds,
\* leaves the cursor inside the window: one column further if the column
\* was below col_end, otherwise at col_start and one row further, or at
\* row_start if the row was row_end.
CursorAdvance ==
  ev.kind = "spi" =>
    \A i \in 1..Len(ev.buffer) :
      ( /\ invokes_pixel(i)
        /\ ~outside_window(trace[i])
        /\ trace[i].col_start <= trace[i].col_end
        /\ trace[i].row_start <= trace[i].row_end )
      => /\ ~outside_window(trace[i + 1])
         /\ cursor(trace[i + 1]) =
              IF trace[i].current_col < trace[i].col_end
              THEN <<trace[i].current_col + 1, trace[i].current_row>>
              ELSE IF trace[i].current_row < trace[i].row_end
              THEN <<trace[i].col_start, trace[i].current_row + 1>>
              ELSE <<trace[i].col_start, trace[i].row_start>>

\* the same, for windows that do not end at the last 16-bit address
CursorAdvanceBelowMax ==
  ev.kind = "spi" =>
    \A i \in 1..Len(ev.buffer) :
      ( /\ invokes_pixel(i)
        /\ ~outside_window(trace[i])
        /\ trace[i].col_start <= trace[i].col_end
        /\ trace[i].row_start <= trace[i].row_end
        /\ trace[i].col_end < 65535
        /\ trace[i].row_end < 65535 )
      => /\ ~outside_window(trace[i + 1])
         /\ cursor(trace[i + 1]) =
              IF trace[i].current_col < trace[i].col_end
              THEN <<trace[i].current_col + 1, trace[i].current_row>>
              ELSE IF trace[i].current_row < trace[i].row_end
              THEN <<trace[i].col_start, trace[i].current_row + 1>>
              ELSE <<trace[i].col_start, trace[i].row_start>>

\* C18 as claimed: every pixel (x,y) of the surface with
\* (x-120)^2 + (y-120)^2 > 120^2 holds opaque black, in every state.  The
\* framebuffer holds the pixels that differ from opaque black.
MaskedAreaBlack ==
  \A i \in DOMAIN state.framebuffer :
    state.framebuffer[i] # black => ~outside_circle(i % width, i \div width)

\* C19 as claimed: between two events, reception is armed whenever the
\* select line is low; in particular it is armed after a falling edge of the
\* reset line that came while the select line was low.
ArmedWhileSelected ==
  pins.cs = LOW => state.spi

\* C20: reception is armed only while the select line is low: the chip
\* starts with the select line high and no transfer pending, every
\* spi_start is made with the select line low, and the select line going
\* high stops the transfer.
ArmedOnlyWhileSelected ==
  state.spi => pins.cs = LOW

\* C20 witness: the select line went high while a transfer was pending in
\* data mode, and the transfer was stopped
DeselectStopsWitness ==
  /\ ev.kind = "pin" /\ ev.pin = "cs" /\ ev.value = HIGH
  /\ prev.spi
  /\ prev.mode = GC9A01_MODE_DATA
  /\ ~state.spi
  /\ pins.cs = HIGH

(* ------------------------------------------------------------------ *)
(* SpecColor: samples written at the centre of the display             *)
(* ------------------------------------------------------------------ *)

\* deliveries in one behaviour of SpecColor
MaxColorDeliveries == 3

\* every single bit of a sample, no bit, all bits, and two mixed samples
ColorSamples == {2 ^ k : k \in 0..15} \cup {0, 65535, 4660, 43981}

ColorBuffers ==
  IF pins.dc = LOW
  THEN {set_window(<<120, 120, 120, 120>>), <<GC9A01_INVON>>}
  ELSE {<<v \div 256, v % 256>> : v \in ColorSamples}

ColorCsChange ==
  \E value \in {LOW, HIGH} :
    /\ PinChange("cs", value)
    /\ UNCHANGED <<used, scen, base, sent, wrap>>

ColorDcChange ==
  \E value \in {LOW, HIGH} :
    /\ PinChange("dc", value)
    /\ UNCHANGED <<used, scen, base, sent, wrap>>

ColorDeliver ==
  \E buffer \in ColorBuffers, ovf \in BOOLEAN :
    /\ used < MaxColorDeliveries
    /\ SpiDone(buffer, ovf)
    /\ used' = used + 1
    /\ UNCHANGED <<scen, base, sent, wrap>>

NextColor == ColorCsChange \/ ColorDcChange \/ ColorDeliver

SpecColor == Init /\ [][NextColor]_vars

\* C9: with inversion off, a sample S written while the cursor is at a pixel
\* of the surface inside the window and inside the circle leaves at that
\* pixel exactly 0xFF000000 | ((S & 0x001F) << 19) | ((S & 0x07E0) << 5)
\* | ((S & 0xF800) >> 8).
ColorRoundTrip ==
  ev.kind = "spi" =>
    \A i \in 1..Len(ev.buffer) :
      ( /\ invokes_pixel(i)
        /\ ~trace[i].inverted
        /\ ~outside_window(trace[i])
        /\ on_surface(trace[i])
        /\ ~outside_circle(trace[i].current_col, trace[i].current_row) )
      => \A j \in 0..31 :
           ColorBit(pixel_at(trace[i + 1].framebuffer,
                             trace[i].current_col, trace[i].current_row), j)
             = ExpandedBit(sample_of(i), j)

\* C9 witness: the sample 0xABCD was written at the centre with inversion off
\* and the pixel holds 0xFF6878A8
ColorWitness ==
  /\ ev.kind = "spi" /\ Len(ev.buffer) = 2
  /\ invokes_pixel(2)
  /\ ~prev.inverted
  /\ cursor(prev) = <<120, 120>>
  /\ sample_of(2) = 43981
  /\ pixel_at(state.framebuffer, 120, 120) = <<255, 6846632>>

(* ------------------------------------------------------------------ *)
(* SpecLines: the parser under all three control lines, byte by byte   *)
(* ------------------------------------------------------------------ *)

\* bytes delivered in one behaviour of SpecLines
MaxLineBytes == 4

\* as opcodes: reset, memory write, a one-argument and a four-argument
\* command; all four also serve as argument and sample bytes
LineBytes == {GC9A01_SWRESET, GC9A01_RAMWR, GC9A01_MADCTL, GC9A01_CASET}

LineBuffers == SeqsUpTo(LineBytes, MaxChunk)

\* base is the state left by the last control-line event the callback acted
\* on, sent the deliveries since
LineCsChange ==
  \E value \in {LOW, HIGH} :
    /\ PinChange("cs", value)
    /\ base' = state'
    /\ sent' = NoSent
    /\ UNCHANGED <<used, scen, wrap>>

LineDcChange ==
  \E value \in {LOW, HIGH} :
    /\ PinChange("dc", value)
    /\ base' = state'
    /\ sent' = NoSent
    /\ UNCHANGED <<used, scen, wrap>>

\* a rising edge of the reset line runs no branch of the callback
LineRstChange ==
  \E value \in {LOW, HIGH} :
    /\ PinChange("rst", value)
    /\ base' = IF value = LOW THEN state' ELSE base
    /\ sent' = IF value = LOW THEN NoSent ELSE sent
    /\ UNCHANGED <<used, scen, wrap>>

LineDeliver ==
  \E buffer \in LineBuffers, ovf \in BOOLEAN :
    /\ used + Len(buffer) <= MaxLineBytes
    /\ SpiDone(buffer, ovf)
    /\ used' = used + Len(buffer)
    /\ sent' = [bytes |-> sent.bytes \o buffer, calls |-> sent.calls + 1]
    /\ UNCHANGED <<base, scen, wrap>>

NextLines == LineCsChange \/ LineDcChange \/ LineRstChange \/ LineDeliver

SpecLines == Init /\ [][NextLines]_vars

(* ------------------------------------------------------------------ *)
(* Properties of SpecLines                                             *)
(* ------------------------------------------------------------------ *)

\* C12 as claimed: the high byte of a sample is pending only while a memory
\* write is active: in every state with ram_write false, pending_data_valid
\* is false; the reset opcode, a falling edge of the reset line and the
\* select line going high, which clear ram_write, leave no byte pending.
PendingOnlyInSession ==
  ~state.ram_write => ~state.pending_data_valid

\* byte i of the last delivery was stored as an argument of the current
\* command, at index received_args of command_args
stores_argument(i) ==
  /\ trace[i].mode = GC9A01_MODE_COMMAND
  /\ trace[i].is_receiving_command

\* C14: while a command is being assembled, received_args <= expected_args
\* <= 16, between events and after every byte; every argument byte is stored
\* at an index below expected_args, hence below 16, of command_args, and
\* counted once.
ArgumentCount ==
  /\ state.is_receiving_command =>
       /\ state.received_args <= state.expected_args
       /\ state.expected_args <= ARGS_LEN
  /\ ev.kind = "spi" =>
       \A i \in 1..Len(ev.buffer) :
         /\ trace[i + 1].is_receiving_command =>
              /\ trace[i + 1].received_args <= trace[i + 1].expected_args
              /\ trace[i + 1].expected_args <= ARGS_LEN
         /\ stores_argument(i) =>
              /\ trace[i].received_args < trace[i].expected_args
              /\ trace[i].received_args < ARGS_LEN
              /\ trace[i + 1].command_args[trace[i].received_args + 1] = ev.buffer[i]
              /\ trace[i + 1].received_args = trace[i].received_args + 1
              /\ trace[i + 1].received_args <= trace[i + 1].expected_args
              /\ trace[i + 1].expected_args <= ARGS_LEN

\* C14 witness: the third argument of a column-address-set was stored at
\* index 2, in the first delivery after a control-line event that came
\* between the second and the third argument
ArgumentCountWitness ==
  /\ ev.kind = "spi" /\ Len(ev.buffer) = 1
  /\ stores_argument(1)
  /\ sent.calls = 1
  /\ prev.current_command = GC9A01_CASET
  /\ prev.received_args = 2
  /\ state.received_args = 3
  /\ state.command_args[3] = ev.buffer[1]
  /\ state.is_receiving_command

\* the states the loop goes through when the bytes delivered since base are
\* handled in one call
run == steps(base, sent.bytes, 1, FALSE)

\* byte i of the bytes delivered since base completed a sample and invoked
\* process_pixel
run_invokes_pixel(i) ==
  /\ run[i].mode = GC9A01_MODE_DATA
  /\ run[i].ram_write
  /\ run[i].pending_data_valid

\* the n bytes delivered since base, in however many calls, left the state
\* one call with all of them leaves; process_pixel was invoked at every
\* second byte and at no other, with the sample (b(2k) << 8) | b(2k+1); a
\* high byte is pending exactly when n is odd
pairs_up ==
  LET n == Len(sent.bytes) IN
  /\ state = [run[n + 1] EXCEPT !.spi = state.spi]
  /\ \A i \in 1..n :
       IF i % 2 = 1 THEN ~run_invokes_pixel(i)
       ELSE /\ run_invokes_pixel(i)
            /\ (run[i].pending_data * 256 + sent.bytes[i]) % 65536
                 = (sent.bytes[i - 1] * 256) + sent.bytes[i]
  /\ state.pending_data_valid <=> (n % 2 = 1)

\* C15 as claimed: in data mode with a memory write active, the n bytes
\* delivered since the last control-line event, in any chunking, invoked the
\* pixel pipeline floor(n/2) times, the k-th time with the sample
\* (b(2k) << 8) | b(2k+1), and a high byte is pending exactly when n is odd.
SamplePairing ==
  (base.mode = GC9A01_MODE_DATA /\ base.ram_write) => pairs_up

\* the same, for the bytes delivered since a control-line event that left no
\* high byte pending
SamplePairingFromBoundary ==
  (base.mode = GC9A01_MODE_DATA /\ base.ram_write /\ ~base.pending_data_valid)
    => pairs_up

====
